---- MODULE Spec2Model ----
(***************************************************************************)
(* Model of api/extensions/ext_storage.py: the Storage facade, its timeit  *)
(* instrumentation decorator and the backend factory.                      *)
(*                                                                         *)
(* The facade methods are operators on a "world" record (the metrics, the  *)
(* log, the backend's content, the facade's storage_runner); each returns  *)
(* a result record [w, ok, err, val]: the world after the call and either  *)
(* the returned value or the raised exception.  Spec runs whole calls of   *)
(* one caller atomically; ConcSpec runs the statements of save and         *)
(* load_once of several callers interleaved.                               *)
(*                                                                         *)
(* The concrete backends (package extensions.storage) and the StorageType *)
(* enumeration are not part of the two files modelled here; Backend,       *)
(* Chunks, next_chunk and StorageType follow their description in the      *)
(* specification.  Backend errors are instances of Exception (the only     *)
(* ones the handlers of the facade catch).                                 *)
(***************************************************************************)
EXTENDS Integers, Sequences, FiniteSets, TLC

\* ---- bounds ----
MaxCalls == 2      \* facade calls per behaviour (Spec)
MaxInits == 2      \* init_app calls per behaviour (Spec)
MaxLen == 2        \* longest byte sequence saved
NKeys == 2         \* object keys used by the sequential caller
NThreads == 2      \* concurrent callers (ConcSpec)
ChunkSize == 1     \* bytes per chunk of a streamed load

VARIABLES
    STORAGE_TYPE,    \* dify_config.STORAGE_TYPE, read at startup, the provider label
    storage_runner,  \* Storage.storage_runner: identity of the backend instance held, Unset before init
    constructed,     \* number of backend instances constructed so far
    total,           \* storage_request_total_counter, per method label
    failed,          \* storage_request_failed_counter, per method label
    latency,         \* storage_request_latency: number of observations, per method label
    log,             \* entries written by logger.exception
    store,           \* content of the storage behind the backend, per key
    stream,          \* the generator handed out by the last streaming load
    last,            \* the last call made: arguments, outcome, event trace, state before it
    saved,           \* per key: the bytes of the last save, when no save or delete was attempted since
    inits,           \* init_app calls made
    ncalls,          \* facade calls made by the sequential caller
    pc,              \* ConcSpec: position of each concurrent caller
    tdata,           \* ConcSpec: the bytes each caller passed to save
    tres,            \* ConcSpec: what each caller's load_once returned
    calls_made       \* ConcSpec: facade calls entered

vars == <<STORAGE_TYPE, storage_runner, constructed, total, failed, latency, log, store,
          stream, last, saved, inits, ncalls, pc, tdata, tres, calls_made>>

\* ---- values ----
Byte == {0, 1}

\* the byte sequences saved: alternating bytes of every length up to MaxLen
Data == {[i \in 1..n |-> (i + b) % 2] : n \in 0..MaxLen, b \in Byte}

Max(a, b) == IF a > b THEN a ELSE b

Keys == 1..NKeys
Threads == 1..NThreads
AllKeys == 1..Max(NKeys, NThreads)

\* the decorated methods: func.__name__ is the method label of the three metrics
Methods == {"save", "load", "load_once", "load_stream", "download", "exists", "delete"}

Unset == 0

NoError == [kind |-> "none", msg |-> ""]

\* the error a backend raises on a failed request (a missing key raises NotFound)
Errors == {[kind |-> "IOError", msg |-> "disk"]}

NotFound == [kind |-> "FileNotFoundError", msg |-> "missing"]

\* self.storage_runner read before init_app has set it
AttributeError == [kind |-> "AttributeError", msg |-> "storage_runner"]

\* raise ValueError(f"unsupported storage type {storage_type}")
UnsupportedBackendType == [kind |-> "ValueError", msg |-> "unsupported storage type"]

Faults == {NoError} \cup Errors

Missing == [present |-> FALSE, bytes |-> <<>>]
Object(b) == [present |-> TRUE, bytes |-> b]

None == [tag |-> "none"]
BytesVal(b) == [tag |-> "bytes", bytes |-> b]
BoolVal(b) == [tag |-> "bool", bool |-> b]

NoData == <<>>

Return(w, v) == [w |-> w, ok |-> TRUE, err |-> NoError, val |-> v]
Raise(w, e) == [w |-> w, ok |-> FALSE, err |-> e, val |-> None]

Event(w, kind, name) == [w EXCEPT !.trace = Append(@, <<kind, name>>)]

\* ---- the backend behind storage_runner ----
RECURSIVE Chunks(_)
Chunks(b) ==
    IF Len(b) = 0 THEN <<>>
    ELSE IF Len(b) <= ChunkSize THEN <<b>>
    ELSE <<SubSeq(b, 1, ChunkSize)>> \o Chunks(SubSeq(b, ChunkSize + 1, Len(b)))

RECURSIVE Concat(_)
Concat(cs) == IF Len(cs) = 0 THEN <<>> ELSE Head(cs) \o Concat(Tail(cs))

NoStream == [status |-> "none", key |-> 0, missing |-> FALSE, rest |-> <<>>, got |-> <<>>,
             frames |-> <<>>, expect |-> [known |-> FALSE, bytes |-> <<>>], err |-> NoError]

Generator(key, obj) ==
    [tag |-> "gen", key |-> key, missing |-> ~obj.present, rest |-> Chunks(obj.bytes),
     frames |-> <<>>]

\* one operation of the backend adapter: synchronous, one attempt, raises on failure
Backend(w, bop, key, data, fault) ==
    LET w1 == Event(w, "backend", bop)
    IN  IF fault # NoError THEN Raise([w1 EXCEPT !.raised = fault], fault)
        ELSE CASE bop = "save" -> Return([w1 EXCEPT !.store[key] = Object(data)], None)
               [] bop = "load_once" ->
                    IF w.store[key].present THEN Return(w1, BytesVal(w.store[key].bytes))
                    ELSE Raise([w1 EXCEPT !.raised = NotFound], NotFound)
               [] bop = "load_stream" -> Return(w1, Generator(key, w.store[key]))
               [] bop = "download" ->
                    IF w.store[key].present THEN Return(w1, None)
                    ELSE Raise([w1 EXCEPT !.raised = NotFound], NotFound)
               [] bop = "exists" -> Return(w1, BoolVal(w.store[key].present))
               [] bop = "delete" -> Return([w1 EXCEPT !.store[key] = Missing], None)

\* ---- timeit ----
\* entering the with block and incrementing the total counter
timeit_enter(w, name) == Event([w EXCEPT !.total[name] = @ + 1], "total", name)

\* except Exception as e: failed counter incremented, then raise e
timeit_except(w, name) == Event([w EXCEPT !.failed[name] = @ + 1], "failed", name)

\* leaving the with block of Histogram.time(): one observation, on return and on raise
timeit_observe(w, name) == Event([w EXCEPT !.latency[name] = @ + 1], "observe", name)

timeit_exit(r, name) ==
    [r EXCEPT !.w = timeit_observe(IF r.ok THEN r.w ELSE timeit_except(r.w, name), name)]

\* ---- the facade ----
\* logger.exception(f"Failed to <msg> file {filename}")
LogException(w, msg, filename) ==
    Event([w EXCEPT !.log = Append(@, <<msg, filename>>)], "log", msg)

\* variant: the handler raises a new error carrying the message of the one caught
except_log_wrapped(r, msg, filename) ==
    IF r.ok THEN r
    ELSE [r EXCEPT !.w = LogException(@, msg, filename),
                   !.err = [kind |-> "Exception", msg |-> r.err.msg]]

\* try: ... except Exception as e: logger.exception(...); raise e
except_log(r, msg, filename) ==
    IF r.ok THEN r ELSE [r EXCEPT !.w = LogException(@, msg, filename)]

\* self.storage_runner.<bop>(...)
Runner(w, bop, key, data, fault) ==
    IF w.storage_runner = Unset THEN Raise(w, AttributeError)
    ELSE Backend(w, bop, key, data, fault)

\* variant: the data argument is not handed on to the backend
save_without_data(w, filename, data, fault) ==
    LET r == except_log(Runner(w, "save", filename, NoData, fault), "save", filename)
    IN  IF r.ok THEN [r EXCEPT !.val = None] ELSE r

\* save carries no @timeit
save(w, filename, data, fault) ==
    LET r == except_log(Runner(w, "save", filename, data, fault), "save", filename)
    IN  IF r.ok THEN [r EXCEPT !.val = None] ELSE r

load_once(w, filename, fault) ==
    timeit_exit(
        except_log(Runner(timeit_enter(w, "load_once"), "load_once", filename, NoData, fault),
                   "load_once", filename),
        "load_once")

\* variant: load_stream written as a generator (yield from), whose handler is
\* still active while the caller consumes the chunks
load_stream_yield_from(w, filename, fault) ==
    LET r == timeit_exit(
                 except_log(Runner(timeit_enter(w, "load_stream"), "load_stream", filename,
                                   NoData, fault),
                            "load_stream", filename),
                 "load_stream")
    IN  IF r.ok THEN [r EXCEPT !.val.frames = <<"load_stream">>] ELSE r

load_stream(w, filename, fault) ==
    timeit_exit(
        except_log(Runner(timeit_enter(w, "load_stream"), "load_stream", filename, NoData, fault),
                   "load_stream", filename),
        "load_stream")

\* load calls the decorated self.load_stream / self.load_once inside its own try and timeit
load(w, filename, strm, fault) ==
    LET w1 == timeit_enter(w, "load")
    IN  timeit_exit(
            except_log(IF strm THEN load_stream(w1, filename, fault)
                       ELSE load_once(w1, filename, fault),
                       "load", filename),
            "load")

\* variant: a failed download is attempted a second time
download_retry(w, filename, fault) ==
    LET w1 == timeit_enter(w, "download")
        r1 == Runner(w1, "download", filename, NoData, fault)
        r2 == IF r1.ok THEN r1 ELSE Runner(r1.w, "download", filename, NoData, fault)
        r == timeit_exit(except_log(r2, "download", filename), "download")
    IN  IF r.ok THEN [r EXCEPT !.val = None] ELSE r

download(w, filename, fault) ==
    LET r == timeit_exit(
                 except_log(Runner(timeit_enter(w, "download"), "download", filename, NoData, fault),
                            "download", filename),
                 "download")
    IN  IF r.ok THEN [r EXCEPT !.val = None] ELSE r

exists(w, filename, fault) ==
    timeit_exit(
        except_log(Runner(timeit_enter(w, "exists"), "exists", filename, NoData, fault),
                   "check file exists", filename),
        "exists")

delete(w, filename, fault) ==
    timeit_exit(
        except_log(Runner(timeit_enter(w, "delete"), "delete", filename, NoData, fault),
                   "delete", filename),
        "delete")

\* ---- the factory ----
StorageType == {"S3", "OPENDAL", "LOCAL", "AZURE_BLOB", "ALIYUN_OSS", "GOOGLE_STORAGE",
                "TENCENT_COS", "OCI_STORAGE", "HUAWEI_OBS", "BAIDU_OBS", "VOLCENGINE_TOS",
                "SUPBASE"}

BackendClasses == {"AwsS3Storage", "OpenDALStorage", "AzureBlobStorage", "AliyunOssStorage",
                   "GoogleCloudStorage", "TencentCosStorage", "OracleOCIStorage",
                   "HuaweiObsStorage", "BaiduObsStorage", "VolcengineTosStorage",
                   "SupabaseStorage"}

NoFactory == [ok |-> FALSE, ctor |-> "none", err |-> NoError]
Factory(c) == [ok |-> TRUE, ctor |-> c, err |-> NoError]

\* variant: the last case of the match is missing
get_storage_factory_short(storage_type) ==
    CASE storage_type = "S3" -> Factory("AwsS3Storage")
      [] storage_type = "OPENDAL" -> Factory("OpenDALStorage")
      [] storage_type = "LOCAL" -> Factory("OpenDALStorage")
      [] storage_type = "AZURE_BLOB" -> Factory("AzureBlobStorage")
      [] storage_type = "ALIYUN_OSS" -> Factory("AliyunOssStorage")
      [] storage_type = "GOOGLE_STORAGE" -> Factory("GoogleCloudStorage")
      [] storage_type = "TENCENT_COS" -> Factory("TencentCosStorage")
      [] storage_type = "OCI_STORAGE" -> Factory("OracleOCIStorage")
      [] storage_type = "HUAWEI_OBS" -> Factory("HuaweiObsStorage")
      [] storage_type = "BAIDU_OBS" -> Factory("BaiduObsStorage")
      [] storage_type = "VOLCENGINE_TOS" -> Factory("VolcengineTosStorage")
      [] OTHER -> [ok |-> FALSE, ctor |-> "none", err |-> UnsupportedBackendType]

get_storage_factory(storage_type) ==
    CASE storage_type = "S3" -> Factory("AwsS3Storage")
      [] storage_type = "OPENDAL" -> Factory("OpenDALStorage")
      [] storage_type = "LOCAL" -> Factory("OpenDALStorage")
      [] storage_type = "AZURE_BLOB" -> Factory("AzureBlobStorage")
      [] storage_type = "ALIYUN_OSS" -> Factory("AliyunOssStorage")
      [] storage_type = "GOOGLE_STORAGE" -> Factory("GoogleCloudStorage")
      [] storage_type = "TENCENT_COS" -> Factory("TencentCosStorage")
      [] storage_type = "OCI_STORAGE" -> Factory("OracleOCIStorage")
      [] storage_type = "HUAWEI_OBS" -> Factory("HuaweiObsStorage")
      [] storage_type = "BAIDU_OBS" -> Factory("BaiduObsStorage")
      [] storage_type = "VOLCENGINE_TOS" -> Factory("VolcengineTosStorage")
      [] storage_type = "SUPBASE" -> Factory("SupabaseStorage")
      [] OTHER -> [ok |-> FALSE, ctor |-> "none", err |-> UnsupportedBackendType]

\* variant: the attribute is cleared before the constructor runs
Storage_init_app_cleared(w, storage_type, ctor_fault) ==
    LET f == get_storage_factory(storage_type)
    IN  IF ~f.ok THEN [w |-> w, ok |-> FALSE, err |-> f.err, factory |-> f]
        ELSE IF ctor_fault # NoError
             THEN [w |-> [Event(w, "construct", f.ctor) EXCEPT !.storage_runner = Unset],
                   ok |-> FALSE, err |-> ctor_fault, factory |-> f]
             ELSE [w |-> [Event(w, "construct", f.ctor)
                            EXCEPT !.constructed = @ + 1, !.storage_runner = w.constructed + 1],
                   ok |-> TRUE, err |-> NoError, factory |-> f]

\* Storage.init_app: the factory is resolved first, then called; the instance it
\* builds is assigned only when the constructor returns
Storage_init_app(w, storage_type, ctor_fault) ==
    LET f == get_storage_factory(storage_type)
    IN  IF ~f.ok THEN [w |-> w, ok |-> FALSE, err |-> f.err, factory |-> f]
        ELSE IF ctor_fault # NoError
             THEN [w |-> Event(w, "construct", f.ctor), ok |-> FALSE, err |-> ctor_fault,
                   factory |-> f]
             ELSE [w |-> [Event(w, "construct", f.ctor)
                            EXCEPT !.constructed = @ + 1, !.storage_runner = w.constructed + 1],
                   ok |-> TRUE, err |-> NoError, factory |-> f]

\* ---- consuming the generator of a streaming load ----
\* one next() on the backend's generator: a chunk, the end of the sequence, or an
\* error of the backend in the middle of the stream
next_chunk(s, fault) ==
    IF fault # NoError THEN [s EXCEPT !.status = "error", !.err = fault]
    ELSE IF s.missing THEN [s EXCEPT !.status = "error", !.err = NotFound]
    ELSE IF Len(s.rest) = 0 THEN [s EXCEPT !.status = "exhausted"]
    ELSE [s EXCEPT !.got = Append(@, Head(s.rest)), !.rest = Tail(s.rest)]

RECURSIVE LogFrames(_, _, _)
LogFrames(w, frames, filename) ==
    IF Len(frames) = 0 THEN w
    ELSE LogFrames(LogException(w, Head(frames), filename), Tail(frames), filename)

\* next() as the caller runs it: the handlers of the facade methods whose frames
\* are still active around the generator (s.frames) see an error it raises
generator_next(w, s, fault) ==
    LET s2 == next_chunk(s, fault)
    IN  [w |-> IF s2.status = "error" THEN LogFrames(w, s.frames, s.key) ELSE w, s |-> s2]

\* ---- state ----
Zero == [m \in Methods |-> 0]

Unknown == [known |-> FALSE, bytes |-> <<>>]
Known(b) == [known |-> TRUE, bytes |-> b]

NoResult == [present |-> FALSE, bytes |-> <<>>]

World ==
    [total |-> total, failed |-> failed, latency |-> latency, log |-> log, store |-> store,
     storage_runner |-> storage_runner, constructed |-> constructed,
     trace |-> <<>>, raised |-> NoError]

Pre ==
    [total |-> total, failed |-> failed, latency |-> latency, loglen |-> Len(log),
     runner |-> storage_runner, constructed |-> constructed]

NoCall ==
    [op |-> "none", key |-> 0, data |-> NoData, strm |-> FALSE, ok |-> TRUE, err |-> NoError,
     val |-> None, raised |-> NoError, trace |-> <<>>, pre |-> Pre, factory |-> NoFactory]

Commit(w) ==
    /\ total' = w.total
    /\ failed' = w.failed
    /\ latency' = w.latency
    /\ log' = w.log
    /\ store' = w.store
    /\ storage_runner' = w.storage_runner
    /\ constructed' = w.constructed

\* the configured provider identifiers: the enumeration and two strings outside it
Identifiers == StorageType \cup {"", "FTP"}

InitWith(types) ==
    /\ STORAGE_TYPE \in types
    /\ storage_runner = Unset
    /\ constructed = 0
    /\ total = Zero
    /\ failed = Zero
    /\ latency = Zero
    /\ log = <<>>
    /\ store = [k \in AllKeys |-> Missing]
    /\ stream = NoStream
    /\ last = [NoCall EXCEPT !.pre = [total |-> Zero, failed |-> Zero, latency |-> Zero,
                                      loglen |-> 0, runner |-> Unset, constructed |-> 0]]
    /\ saved = [k \in AllKeys |-> Unknown]
    /\ inits = 0
    /\ ncalls = 0
    /\ pc = [t \in Threads |-> "idle"]
    /\ tdata = [t \in Threads |-> NoData]
    /\ tres = [t \in Threads |-> NoResult]
    /\ calls_made = 0

\* the identifiers the sequential caller's process is started with
StartupTypes == {"S3", "FTP"}

Init == InitWith(StartupTypes)

\* ---- one caller, whole calls ----
Handle(g, expect) ==
    [status |-> "open", key |-> g.key, missing |-> g.missing, rest |-> g.rest, got |-> <<>>,
     frames |-> g.frames, expect |-> expect, err |-> NoError]

Finish(op, key, data, strm, r) ==
    /\ ncalls' = ncalls + 1
    /\ Commit(r.w)
    /\ last' = [op |-> op, key |-> key, data |-> data, strm |-> strm, ok |-> r.ok,
                err |-> r.err, val |-> r.val, raised |-> r.w.raised, trace |-> r.w.trace,
                pre |-> Pre, factory |-> NoFactory]
    /\ stream' = IF r.ok /\ r.val.tag = "gen" THEN Handle(r.val, saved[key]) ELSE stream
    /\ saved' = CASE op = "save" -> [saved EXCEPT ![key] = IF r.ok THEN Known(data) ELSE Unknown]
                  [] op = "delete" -> [saved EXCEPT ![key] = Unknown]
                  [] OTHER -> saved
    /\ UNCHANGED <<STORAGE_TYPE, inits, pc, tdata, tres, calls_made>>

\* init_app(app): storage.init_app(app)
init_app ==
    /\ inits < MaxInits
    /\ \E ctor_fault \in Faults :
          LET r == Storage_init_app(World, STORAGE_TYPE, ctor_fault)
          IN  /\ Commit(r.w)
              /\ last' = [NoCall EXCEPT !.op = "init_app", !.ok = r.ok, !.err = r.err,
                                        !.trace = r.w.trace, !.pre = Pre,
                                        !.factory = r.factory]
    /\ inits' = inits + 1
    /\ UNCHANGED <<STORAGE_TYPE, stream, saved, ncalls, pc, tdata, tres, calls_made>>

CallSave ==
    /\ ncalls < MaxCalls
    /\ \E k \in Keys, b \in Data, fault \in Faults :
          Finish("save", k, b, FALSE, save(World, k, b, fault))

CallLoad ==
    /\ ncalls < MaxCalls
    /\ \E k \in Keys, strm \in BOOLEAN, fault \in Faults :
          Finish("load", k, NoData, strm, load(World, k, strm, fault))

CallLoadOnce ==
    /\ ncalls < MaxCalls
    /\ \E k \in Keys, fault \in Faults :
          Finish("load_once", k, NoData, FALSE, load_once(World, k, fault))

CallLoadStream ==
    /\ ncalls < MaxCalls
    /\ \E k \in Keys, fault \in Faults :
          Finish("load_stream", k, NoData, TRUE, load_stream(World, k, fault))

CallDownload ==
    /\ ncalls < MaxCalls
    /\ \E k \in Keys, fault \in Faults :
          Finish("download", k, NoData, FALSE, download(World, k, fault))

CallExists ==
    /\ ncalls < MaxCalls
    /\ \E k \in Keys, fault \in Faults :
          Finish("exists", k, NoData, FALSE, exists(World, k, fault))

CallDelete ==
    /\ ncalls < MaxCalls
    /\ \E k \in Keys, fault \in Faults :
          Finish("delete", k, NoData, FALSE, delete(World, k, fault))

\* the caller takes the next chunk of the generator it holds
Consume ==
    /\ stream.status = "open"
    /\ \E fault \in Faults :
          LET c == generator_next(World, stream, fault)
          IN  /\ Commit(c.w)
              /\ stream' = c.s
              /\ last' = [NoCall EXCEPT !.op = "consume", !.key = stream.key,
                                        !.ok = (c.s.status # "error"), !.err = c.s.err,
                                        !.trace = c.w.trace, !.pre = Pre]
    /\ UNCHANGED <<STORAGE_TYPE, saved, inits, ncalls, pc, tdata, tres, calls_made>>

Next ==
    \/ init_app
    \/ CallSave
    \/ CallLoad
    \/ CallLoadOnce
    \/ CallLoadStream
    \/ CallDownload
    \/ CallExists
    \/ CallDelete
    \/ Consume

Spec == Init /\ [][Next]_vars

\* ---- startup: every identifier, initialisation and the first storage operations ----
FactoryInit == InitWith(Identifiers)

FactoryNext ==
    \/ init_app
    \/ CallExists

FactorySpec == FactoryInit /\ [][FactoryNext]_vars

\* ---- concurrent callers: save(key, data) then load_once(key), statement by statement ----
\* caller t uses key t; the Counter and Histogram operations and one backend
\* operation are each atomic
ConcInit ==
    /\ STORAGE_TYPE = "S3"
    /\ storage_runner = 1
    /\ constructed = 1
    /\ total = Zero
    /\ failed = Zero
    /\ latency = Zero
    /\ log = <<>>
    /\ store = [k \in AllKeys |-> Missing]
    /\ stream = NoStream
    /\ last = [NoCall EXCEPT !.pre = [total |-> Zero, failed |-> Zero, latency |-> Zero,
                                      loglen |-> 0, runner |-> 1, constructed |-> 1]]
    /\ saved = [k \in AllKeys |-> Unknown]
    /\ inits = 1
    /\ ncalls = 0
    /\ pc = [t \in Threads |-> "save"]
    /\ tdata = [t \in Threads |-> NoData]
    /\ tres = [t \in Threads |-> NoResult]
    /\ calls_made = 0

\* what a concurrent caller saves: one byte
ConcData == {<<b>> : b \in Byte}

ConcFrame == UNCHANGED <<STORAGE_TYPE, stream, last, saved, inits, ncalls>>

\* save, line 113: self.storage_runner.save(filename, data)
SaveBackend(t) ==
    /\ pc[t] = "save"
    /\ \E b \in ConcData, fault \in Faults :
          LET r == Runner(World, "save", t, b, fault)
          IN  /\ Commit(r.w)
              /\ tdata' = [tdata EXCEPT ![t] = b]
              /\ pc' = [pc EXCEPT ![t] = IF r.ok THEN "load_once" ELSE "save_except"]
    /\ calls_made' = calls_made + 1
    /\ UNCHANGED tres
    /\ ConcFrame

\* save, lines 114-116: the handler logs and raises; the caller goes on to load_once
SaveExcept(t) ==
    /\ pc[t] = "save_except"
    /\ Commit(LogException(World, "save", t))
    /\ pc' = [pc EXCEPT ![t] = "load_once"]
    /\ UNCHANGED <<tdata, tres, calls_made>>
    /\ ConcFrame

\* timeit, lines 40-41, around load_once
LoadOnceEnter(t) ==
    /\ pc[t] = "load_once"
    /\ Commit(timeit_enter(World, "load_once"))
    /\ calls_made' = calls_made + 1
    /\ pc' = [pc EXCEPT ![t] = "load_once_backend"]
    /\ UNCHANGED <<tdata, tres>>
    /\ ConcFrame

\* load_once, line 140
LoadOnceBackend(t) ==
    /\ pc[t] = "load_once_backend"
    /\ \E fault \in Faults :
          LET r == Runner(World, "load_once", t, NoData, fault)
          IN  /\ Commit(r.w)
              /\ tres' = [tres EXCEPT ![t] = IF r.ok THEN Object(r.val.bytes) ELSE NoResult]
              /\ pc' = [pc EXCEPT ![t] = IF r.ok THEN "load_once_observe"
                                         ELSE "load_once_except"]
    /\ UNCHANGED <<tdata, calls_made>>
    /\ ConcFrame

\* load_once, lines 141-143
LoadOnceExcept(t) ==
    /\ pc[t] = "load_once_except"
    /\ Commit(LogException(World, "load_once", t))
    /\ pc' = [pc EXCEPT ![t] = "load_once_failed"]
    /\ UNCHANGED <<tdata, tres, calls_made>>
    /\ ConcFrame

\* timeit, lines 44-46
LoadOnceFailed(t) ==
    /\ pc[t] = "load_once_failed"
    /\ Commit(timeit_except(World, "load_once"))
    /\ pc' = [pc EXCEPT ![t] = "load_once_observe"]
    /\ UNCHANGED <<tdata, tres, calls_made>>
    /\ ConcFrame

\* timeit, line 40: the with block is left
LoadOnceObserve(t) ==
    /\ pc[t] = "load_once_observe"
    /\ Commit(timeit_observe(World, "load_once"))
    /\ pc' = [pc EXCEPT ![t] = "done"]
    /\ UNCHANGED <<tdata, tres, calls_made>>
    /\ ConcFrame

ConcNext ==
    \/ \E t \in Threads : SaveBackend(t)
    \/ \E t \in Threads : SaveExcept(t)
    \/ \E t \in Threads : LoadOnceEnter(t)
    \/ \E t \in Threads : LoadOnceBackend(t)
    \/ \E t \in Threads : LoadOnceExcept(t)
    \/ \E t \in Threads : LoadOnceFailed(t)
    \/ \E t \in Threads : LoadOnceObserve(t)

ConcSpec == ConcInit /\ [][ConcNext]_vars

\* ---- properties ----
IsFacadeCall == last.op \in Methods

\* a facade call made while the facade holds a backend
IsBackedCall == IsFacadeCall /\ last.pre.runner # Unset

Count(trace, kind) == Len(SelectSeq(trace, LAMBDA e : e[1] = kind))

Position(trace, ev) ==
    IF \E i \in 1..Len(trace) : trace[i] = ev
    THEN CHOOSE i \in 1..Len(trace) : trace[i] = ev /\ \A j \in 1..(i - 1) : trace[j] # ev
    ELSE 0

\* the backend operation a facade call stands for
BackendOp(op, strm) ==
    IF op = "load" THEN (IF strm THEN "load_stream" ELSE "load_once") ELSE op

RECURSIVE SumOver(_, _)
SumOver(f, S) ==
    IF S = {} THEN 0
    ELSE LET m == CHOOSE x \in S : TRUE IN f[m] + SumOver(f, S \ {m})

\* C1: every facade call increments the total counter of its method by exactly 1, and
\* the failed counter of its method by exactly 1 when it raises and by 0 when it returns.
C1_CountersPerCall ==
    IsBackedCall =>
        /\ total[last.op] = last.pre.total[last.op] + 1
        /\ failed[last.op] = last.pre.failed[last.op] + (IF last.ok THEN 0 ELSE 1)

\* C2: every facade call adds exactly one latency observation for its method, on
\* return and on raise, and it is recorded after the backend call has finished.
C2_OneObservation ==
    IsBackedCall =>
        /\ latency[last.op] = last.pre.latency[last.op] + 1
        /\ Count(last.trace, "backend") > 0 =>
               Position(last.trace, <<"observe", last.op>>) >
               Position(last.trace, <<"backend", BackendOp(last.op, last.strm)>>)

\* C3: an error raised by the backend reaches the caller of the facade as the same
\* error, same kind and same message: it is neither replaced nor wrapped nor swallowed.
C3_ErrorIdentity ==
    (IsFacadeCall /\ last.raised # NoError) => (~last.ok /\ last.err = last.raised)

C3_Witness ==
    /\ last.op = "load"
    /\ last.raised \in Errors
    /\ ~last.ok
    /\ Count(last.trace, "log") = 2

\* C4: a facade call that raises writes exactly one log entry, naming the operation
\* and the key; a facade call that returns writes none.
C4_OneLogEntry ==
    IsBackedCall =>
        IF last.ok THEN Len(log) = last.pre.loglen
        ELSE /\ Len(log) = last.pre.loglen + 1
             /\ log[Len(log)][2] = last.key
             /\ Count(last.trace, "log") = 1

\* C5: the factory yields a constructor for each of the 12 enumerated identifiers; for
\* any other identifier init_app fails with the unsupported-type error before a backend
\* is constructed, and that error never comes from a storage operation.
C5_FactoryTotalFailFast ==
    /\ (last.op = "init_app" /\ STORAGE_TYPE \in StorageType) =>
           /\ last.factory.ok
           /\ last.factory.ctor \in BackendClasses
           /\ last.err # UnsupportedBackendType
           /\ Count(last.trace, "construct") = 1
    /\ (last.op = "init_app" /\ STORAGE_TYPE \notin StorageType) =>
           /\ ~last.ok
           /\ last.err = UnsupportedBackendType
           /\ Count(last.trace, "construct") = 0
    /\ STORAGE_TYPE \notin StorageType => (constructed = 0 /\ storage_runner = Unset)
    /\ IsFacadeCall => last.err # UnsupportedBackendType

C5_Witness ==
    /\ last.op = "init_app"
    /\ STORAGE_TYPE = "FTP"
    /\ last.err = UnsupportedBackendType
    /\ inits = 1
    /\ ncalls = 0

\* C6 as stated: once the facade holds a backend instance it holds that same instance
\* in every later state, whatever facade operations and initialization calls follow.
C6_NeverSwapped == [][storage_runner # Unset => storage_runner' = storage_runner]_vars

\* C6, amended: a successful init_app call constructs exactly one new backend instance
\* and the facade holds it; facade operations, the consumption of a stream and failed
\* init_app calls leave the instance held unchanged and construct nothing.
C6_SwappedOnlyByInit ==
    /\ (IsFacadeCall \/ last.op = "consume" \/ (last.op = "init_app" /\ ~last.ok)) =>
           /\ storage_runner = last.pre.runner
           /\ constructed = last.pre.constructed
    /\ (last.op = "init_app" /\ last.ok) =>
           /\ constructed = last.pre.constructed + 1
           /\ storage_runner = constructed
           /\ storage_runner # last.pre.runner
    /\ constructed > 0 => storage_runner = constructed

C6_Witness ==
    /\ last.op = "init_app"
    /\ ~last.ok
    /\ last.pre.runner # Unset
    /\ storage_runner = last.pre.runner

\* C7: after a successful save(k, b) with no later save or delete of k, load_once(k)
\* and load(k, stream=False) return b, and the chunks of load_stream(k) and of
\* load(k, stream=True) concatenate to b.
C7_RoundTrip ==
    /\ ((last.op = "load_once" \/ (last.op = "load" /\ ~last.strm))
            /\ last.ok /\ saved[last.key].known) =>
           last.val = BytesVal(saved[last.key].bytes)
    /\ ((last.op = "load_stream" \/ (last.op = "load" /\ last.strm))
            /\ last.ok /\ saved[last.key].known) =>
           /\ stream.key = last.key
           /\ Concat(stream.rest) = saved[last.key].bytes
    /\ (stream.status = "exhausted" /\ stream.expect.known
            /\ saved[stream.key] = stream.expect) =>
           Concat(stream.got) = stream.expect.bytes

C7_Witness ==
    /\ stream.status = "exhausted"
    /\ stream.expect.known
    /\ saved[stream.key] = stream.expect
    /\ Len(Concat(stream.got)) = 2
    /\ stream.got[1][1] # stream.got[Len(stream.got)][Len(stream.got[Len(stream.got)])]

\* C8: each concurrent caller's load_once returns only what that caller saved, and
\* once all callers have finished the total counters sum to the number of facade
\* calls made.
C8_Concurrent ==
    /\ \A t \in Threads :
           (pc[t] = "done" /\ tres[t].present) => tres[t].bytes = tdata[t]
    /\ (\A t \in Threads : pc[t] = "done") => SumOver(total, Methods) = calls_made

\* C9: a facade call invokes the corresponding operation of the active backend exactly
\* once; when it raises there is no second attempt, no recovery and no other backend,
\* and the caller gets the failure.
C9_SingleAttempt ==
    IsBackedCall =>
        /\ Count(last.trace, "backend") = 1
        /\ Position(last.trace, <<"backend", BackendOp(last.op, last.strm)>>) > 0
        /\ last.raised # NoError => ~last.ok
        /\ storage_runner = last.pre.runner
        /\ constructed = last.pre.constructed

C9_Witness ==
    /\ last.op = "load"
    /\ ~last.strm
    /\ last.pre.runner # Unset
    /\ last.raised \in Errors
    /\ ~last.ok

\* C10: a streaming load has recorded its total count and its latency observation when
\* the generator is handed back, before any chunk is consumed; consuming the generator,
\* an error in the middle of the stream included, changes no counter and no histogram
\* and writes no log entry.
C10_StreamMetricsAtHandover ==
    /\ ((last.op = "load_stream" \/ (last.op = "load" /\ last.strm)) /\ last.ok) =>
           /\ stream.status = "open"
           /\ stream.got = <<>>
           /\ total[last.op] = last.pre.total[last.op] + 1
           /\ latency[last.op] = last.pre.latency[last.op] + 1
           /\ failed = last.pre.failed
    /\ last.op = "consume" =>
           /\ total = last.pre.total
           /\ failed = last.pre.failed
           /\ latency = last.pre.latency
           /\ Len(log) = last.pre.loglen

C10_Witness ==
    /\ last.op = "consume"
    /\ stream.status = "error"
    /\ stream.err \in Errors
    /\ Len(stream.got) >= 1
====
